---- MODULE Spec2Model ----
(***************************************************************************)
(* A model of the dense-matrix engine (LinearAlgebra.c++) and of the       *)
(* feedforward network trained by backpropagation (NeuralNetwork.c++).     *)
(*                                                                         *)
(* Numbers.  The program computes in double.  The model computes in fixed  *)
(* point: the integer n stands for n / SCALE, products and quotients are   *)
(* rounded to the nearest unit.  std::exp is replaced by the approximant   *)
(* (1 + x/8)^8.                                                            *)
(*                                                                         *)
(* Undefined behaviour.  Matrix::at indexes std::vector without a check.   *)
(* A read outside a matrix's storage either ends the program or yields an  *)
(* arbitrary value; every operator that reads takes the parameter g, the   *)
(* value such a read yields, and a companion ...Oob predicate tells        *)
(* whether such a read happens.  The actions choose between the two        *)
(* outcomes.                                                               *)
(***************************************************************************)
EXTENDS Integers, Sequences, FiniteSets, TLC

VARIABLES
    sample,     \* the driver's data: the input matrix and the expected-output matrix
    phase,      \* "new": no network constructed; "ok": a network exists; "fault": the program ended in an out-of-bounds access
    layers,     \* NeuralNetwork::layers
    weights,    \* NeuralNetwork::weights
    biases,     \* NeuralNetwork::biases
    randState,  \* the state of the C library's rand()
    calls,      \* number of backpropagate calls made so far
    call,       \* history: the last network operation, its arguments, result and internals
    mop         \* history: the last free-standing matrix operation (matrix engine harness)

vars == <<sample, phase, layers, weights, biases, randState, calls, call, mop>>

netVars == <<sample, phase, layers, weights, biases, randState, calls, call>>

----------------------------------------------------------------------------
(* Bounds of the model *)

MaxWidth == 2       \* largest layer width
MaxLayers == 3      \* longest layer-size list
MaxCols == 2        \* largest number of sample columns
MaxCalls == 1       \* backpropagate calls per behaviour
RandMax == 4        \* stands for RAND_MAX
MaxDim == 3         \* largest dimension of a matrix handed to the matrix engine harness
MaxPattern == 2     \* fill patterns of the matrices handed to the harness

(* Program constants, in units of 1 / SCALE *)

SCALE == 1000
LEARNING_RATE == 1
L2_LAMBDA == 10
DELTA_SCALE == 1500

----------------------------------------------------------------------------
(* Fixed-point arithmetic *)

Round(n, d) == (n + (d \div 2)) \div d

FMul(x, y) == Round(x * y, SCALE)

FDiv(x, y) == Round(x * SCALE, y)

Max(x, y) == IF x >= y THEN x ELSE y

Sq(x) == FMul(x, x)

Min(x, y) == IF x <= y THEN x ELSE y

(* exp, as (1 + x/8)^8 by three squarings; it stays positive, and above    *)
(* x = 12 it saturates to keep the products within the checker's integers. *)
Exp(x) ==
    LET base == SCALE + Round(Min(x, 12 * SCALE), 8)
    IN  IF base <= 0 THEN 1 ELSE Max(1, Sq(Sq(Sq(base))))

Sqrt(v) == CHOOSE x \in 0..(3 * SCALE) : x * x <= v /\ (x + 1) * (x + 1) > v

----------------------------------------------------------------------------
(* Evaluation helpers: With1 and With2 evaluate their arguments once and   *)
(* hand the values on, as a C++ call evaluates its arguments once.         *)

With1(v, F(_)) == CHOOSE r \in { F(x) : x \in {v} } : TRUE

With2(v, w, F(_, _)) == CHOOSE r \in { F(x, y) : x \in {v}, y \in {w} } : TRUE

----------------------------------------------------------------------------
(* Matrix: rows, cols and a rows x cols store.  Indices are zero-based as  *)
(* in the program; the store is a sequence of rows.                        *)

Fill(rows, cols, f(_, _)) ==
    [rows |-> rows, cols |-> cols,
     data |-> SubSeq([i \in 1..rows |->
                        SubSeq([j \in 1..cols |-> f(i - 1, j - 1)], 1, cols)], 1, rows)]

Matrix(rows, cols) == Fill(rows, cols, LAMBDA i, j : 0)

getRows(m) == m.rows

getCols(m) == m.cols

InBounds(m, row, col) ==
    /\ row >= 0 /\ row < m.rows
    /\ col >= 0 /\ col < m.cols

(* Matrix::at; g is the value a read outside the store yields. *)
at(m, row, col, g) == IF InBounds(m, row, col) THEN m.data[row + 1][col + 1] ELSE g

Cells(m) == (0..(getRows(m) - 1)) \X (0..(getCols(m) - 1))

add(a, b, g) ==
    With2(a, b, LAMBDA x, y :
        Fill(getRows(x), getCols(x), LAMBDA i, j : at(x, i, j, g) + at(y, i, j, g)))

addOob(a, b) == \E c \in Cells(a) : ~InBounds(b, c[1], c[2])

subtractWrongShape(a, b, g) ==
    With2(a, b, LAMBDA x, y :
        Fill(getRows(y), getCols(y), LAMBDA i, j : at(x, i, j, g) - at(y, i, j, g)))

subtract(a, b, g) ==
    With2(a, b, LAMBDA x, y :
        Fill(getRows(x), getCols(x), LAMBDA i, j : at(x, i, j, g) - at(y, i, j, g)))

subtractOob(a, b) == \E c \in Cells(a) : ~InBounds(b, c[1], c[2])

(* The inner loop of multiply: sum += a.at(i, k) * b.at(k, j). *)
RECURSIVE dot(_, _, _, _, _, _, _)
dot(a, b, i, j, k, sum, g) ==
    IF k < getCols(a)
    THEN dot(a, b, i, j, k + 1, sum + FMul(at(a, i, k, g), at(b, k, j, g)), g)
    ELSE sum

multiplySwapped(a, b, g) ==
    With2(a, b, LAMBDA x, y :
        Fill(getRows(x), getCols(y), LAMBDA i, j : dot(y, x, i, j, 0, 0, g)))

multiply(a, b, g) ==
    With2(a, b, LAMBDA x, y :
        Fill(getRows(x), getCols(y), LAMBDA i, j : dot(x, y, i, j, 0, 0, g)))

multiplyOob(a, b) ==
    \E i \in 0..(getRows(a) - 1), j \in 0..(getCols(b) - 1), k \in 0..(getCols(a) - 1) :
        ~InBounds(a, i, k) \/ ~InBounds(b, k, j)

scalarMultiply(scalar, matrix) ==
    With1(matrix, LAMBDA x :
        Fill(getRows(x), getCols(x), LAMBDA i, j : FMul(scalar, at(x, i, j, 0))))

hadamardProduct(a, b, g) ==
    With2(a, b, LAMBDA x, y :
        Fill(getRows(x), getCols(x), LAMBDA i, j : FMul(at(x, i, j, g), at(y, i, j, g))))

hadamardProductOob(a, b) == \E c \in Cells(a) : ~InBounds(b, c[1], c[2])

SameShape(a, b) == getRows(a) = getRows(b) /\ getCols(a) = getCols(b)

(* elementwiseMultiply is declared in LinearAlgebra.h and called by the    *)
(* network; LinearAlgebra.c++ holds no definition of that name.  It is     *)
(* the Hadamard product of two matrices of one shape, and an error         *)
(* otherwise.                                                              *)
elementwiseMultiply(a, b) ==
    With2(a, b, LAMBDA x, y :
        IF SameShape(x, y)
        THEN Fill(getRows(x), getCols(x), LAMBDA i, j : FMul(at(x, i, j, 0), at(y, i, j, 0)))
        ELSE [error |-> "ShapeMismatch"])

transpose(matrix) ==
    With1(matrix, LAMBDA x :
        Fill(getCols(x), getRows(x), LAMBDA j, i : at(x, i, j, 0)))

(* The loops of meanSquaredError, cell n = i * cols + j. *)
RECURSIVE squaredError(_, _, _, _, _)
squaredError(a, b, n, error, g) ==
    IF n < getRows(a) * getCols(a)
    THEN LET i == n \div getCols(a)
             j == n % getCols(a)
             diff == at(a, i, j, g) - at(b, i, j, g)
         IN  squaredError(a, b, n + 1, error + FMul(diff, diff), g)
    ELSE error

meanSquaredError(a, b, g) ==
    Round(squaredError(a, b, 0, 0, g), 2 * getRows(a) * getCols(a))

meanSquaredErrorOob(a, b) == \E c \in Cells(a) : ~InBounds(b, c[1], c[2])

----------------------------------------------------------------------------
(* The matrix engine harness: one free-standing call per step. *)

Pattern(rows, cols, p) ==
    LET cell(i, j) == ((((i * cols + j + 1) * (p + 1)) % 5) - 2) * SCALE
    IN  Fill(rows, cols, cell)

Operands ==
    { Pattern(r, c, p) : r \in 1..MaxDim, c \in 1..MaxDim, p \in 0..MaxPattern }

Garbage == {0, 7 * SCALE}

Outcomes ==
    {[fault |-> TRUE, g |-> 0]} \cup {[fault |-> FALSE, g |-> v] : v \in Garbage}

Defined == [fault |-> FALSE, g |-> 0]

NoOp == [op |-> "none"]

NoOperands == [op |-> "idle"]

NoSample == [input |-> Matrix(0, 0), expected |-> Matrix(0, 0)]

(* The operands are drawn when the harness starts (mop.op = "none"); each  *)
(* action applies one operation of the engine to them.  When an operation  *)
(* reads outside an operand the program either ends ("fault") or goes on   *)
(* with the value g.                                                       *)
Binary(name, oob(_, _), result(_, _, _)) ==
    /\ mop.op = "none"
    /\ \E u \in Outcomes :
        /\ (~oob(mop.a, mop.b) => u = Defined)
        /\ mop' = IF u.fault
                  THEN [op |-> name, a |-> mop.a, b |-> mop.b, status |-> "fault"]
                  ELSE [op |-> name, a |-> mop.a, b |-> mop.b, status |-> "ok",
                        out |-> result(mop.a, mop.b, u.g)]
    /\ UNCHANGED netVars

DoAdd == Binary("add", addOob, add)

DoSubtract == Binary("subtract", subtractOob, subtract)

DoMultiply == Binary("multiply", multiplyOob, multiply)

DoHadamardProduct == Binary("hadamardProduct", hadamardProductOob, hadamardProduct)

DoMeanSquaredError == Binary("meanSquaredError", meanSquaredErrorOob, meanSquaredError)

DoElementwiseMultiply ==
    /\ mop.op = "none"
    /\ LET r == elementwiseMultiply(mop.a, mop.b)
       IN  mop' = IF "error" \in DOMAIN r
                  THEN [op |-> "elementwiseMultiply", a |-> mop.a, b |-> mop.b,
                        status |-> "ShapeMismatch"]
                  ELSE [op |-> "elementwiseMultiply", a |-> mop.a, b |-> mop.b,
                        status |-> "ok", out |-> r]
    /\ UNCHANGED netVars

DoTranspose ==
    /\ mop.op = "none"
    /\ mop' = [op |-> "transpose", a |-> mop.a, b |-> mop.b, status |-> "ok",
               out |-> transpose(mop.a)]
    /\ UNCHANGED netVars

DoScalarMultiply ==
    /\ mop.op = "none"
    /\ mop' = [op |-> "scalarMultiply", a |-> mop.a, b |-> mop.b, status |-> "ok",
               out |-> scalarMultiply(DELTA_SCALE, mop.a)]
    /\ UNCHANGED netVars

NoNetwork ==
    /\ phase = "new"
    /\ layers = <<>>
    /\ weights = <<>>
    /\ biases = <<>>
    /\ calls = 0
    /\ call = NoOp

InitMatrix ==
    /\ NoNetwork
    /\ sample = NoSample
    /\ randState = 1
    /\ mop \in {[op |-> "none", a |-> a, b |-> b] : a \in Operands, b \in Operands}

NextMatrix ==
    \/ DoAdd
    \/ DoSubtract
    \/ DoMultiply
    \/ DoHadamardProduct
    \/ DoMeanSquaredError
    \/ DoElementwiseMultiply
    \/ DoTranspose
    \/ DoScalarMultiply

SpecMatrix == InitMatrix /\ [][NextMatrix]_vars

----------------------------------------------------------------------------
(* Activation functions *)

ReLU(input) ==
    With1(input, LAMBDA x :
        Fill(getRows(x), getCols(x), LAMBDA i, j : Max(0, at(x, i, j, 0))))

ReLUDerivativeAtZeroOne(input) ==
    With1(input, LAMBDA x :
        Fill(getRows(x), getCols(x), LAMBDA i, j : IF at(x, i, j, 0) >= 0 THEN SCALE ELSE 0))

ReLUDerivative(input) ==
    With1(input, LAMBDA x :
        Fill(getRows(x), getCols(x), LAMBDA i, j : IF at(x, i, j, 0) > 0 THEN SCALE ELSE 0))

RECURSIVE sumExp(_, _, _, _)
sumExp(input, j, i, sum_exp) ==
    IF i < getRows(input)
    THEN sumExp(input, j, i + 1, sum_exp + Exp(at(input, i, j, 0)))
    ELSE sum_exp

softmax(input) ==
    With1(input, LAMBDA x :
        Fill(getRows(x), getCols(x),
             LAMBDA i, j : FDiv(Exp(at(x, i, j, 0)), sumExp(x, j, 0, 0))))

----------------------------------------------------------------------------
(* rand() and Matrix::randomMatrix *)

RandNext(s) == (s + 2) % (RandMax + 1)

RECURSIVE RandAfter(_, _)
RandAfter(s, n) == IF n = 0 THEN s ELSE RandAfter(RandNext(s), n - 1)

randomMatrix(rows, cols, min, max, s) ==
    LET cell(i, j) == min + Round((max - min) * RandAfter(s, i * cols + j + 1), RandMax)
    IN  Fill(rows, cols, cell)

----------------------------------------------------------------------------
(* NeuralNetwork::NeuralNetwork.  The loop bound layers.size() - 1 is      *)
(* unsigned: for an empty list it wraps to the largest size_t, and the     *)
(* first iteration reads layers[0] and layers[1] of an empty vector.       *)

BoundWraps(ls) == Len(ls) = 0

RECURSIVE constructLoop(_, _, _, _, _)
constructLoop(ls, i, W, B, s) ==
    IF i < Len(ls) - 1
    THEN LET fanIn == ls[i + 1]
             fanOut == ls[i + 2]
             limit == Sqrt((6 * SCALE * SCALE) \div (fanIn + fanOut))
             w == randomMatrix(fanOut, fanIn, -limit, limit, s)
             s1 == RandAfter(s, fanOut * fanIn)
             b == randomMatrix(fanOut, 1, -limit, limit, s1)
             s2 == RandAfter(s1, fanOut)
         IN  constructLoop(ls, i + 1, Append(W, w), Append(B, b), s2)
    ELSE [weights |-> W, biases |-> B, randState |-> s]

LayerLists == UNION { [1..n -> 1..MaxWidth] : n \in 0..MaxLayers }

Construct ==
    /\ phase = "new"
    /\ \E ls \in LayerLists :
        IF BoundWraps(ls)
        THEN /\ phase' = "fault"
             /\ call' = [op |-> "construct", arg |-> ls, status |-> "fault"]
             /\ UNCHANGED <<layers, weights, biases, randState>>
        ELSE \E net \in {constructLoop(ls, 0, <<>>, <<>>, randState)} :
                 /\ phase' = "ok"
                 /\ layers' = ls
                 /\ weights' = net.weights
                 /\ biases' = net.biases
                 /\ randState' = net.randState
                 /\ call' = [op |-> "construct", arg |-> ls, status |-> "ok"]
    /\ UNCHANGED <<sample, calls, mop>>

----------------------------------------------------------------------------
(* NeuralNetwork::feedforward *)

RECURSIVE feedforwardLoop(_, _, _, _, _, _)
feedforwardLoop(W, B, i, activation, oob, g) ==
    IF i < Len(W)
    THEN With1(multiply(W[i + 1], activation, g), LAMBDA product :
         With1(add(product, B[i + 1], g), LAMBDA z :
         With1(IF i < Len(W) - 1 THEN ReLU(z) ELSE softmax(z), LAMBDA next :
            feedforwardLoop(W, B, i + 1, next,
                oob \/ multiplyOob(W[i + 1], activation) \/ addOob(product, B[i + 1]),
                g))))
    ELSE [out |-> activation, oob |-> oob]

feedforward(W, B, input, g) == feedforwardLoop(W, B, 0, input, FALSE, g)

Feedforward ==
    /\ phase = "ok"
    /\ \E r0 \in {feedforward(weights, biases, sample.input, Defined.g)} :
       \E u \in IF r0.oob THEN Outcomes ELSE {Defined} :
       \E r \in {IF u = Defined THEN r0
                 ELSE feedforward(weights, biases, sample.input, u.g)} :
            /\ phase' = IF u.fault THEN "fault" ELSE "ok"
            /\ call' = IF u.fault
                       THEN [op |-> "feedforward", input |-> sample.input,
                             status |-> "fault"]
                       ELSE [op |-> "feedforward", input |-> sample.input,
                             status |-> "ok", out |-> r.out]
    /\ UNCHANGED <<sample, layers, weights, biases, randState, calls, mop>>

----------------------------------------------------------------------------
(* NeuralNetwork::backpropagate *)

(* The forward pass that stores every z and every activation. *)
RECURSIVE forwardLoop(_, _, _, _, _, _, _, _)
forwardLoop(W, B, i, activation, zs, activations, oob, g) ==
    IF i < Len(W)
    THEN With1(multiply(W[i + 1], activation, g), LAMBDA product :
         With1(add(product, B[i + 1], g), LAMBDA z :
         With1(IF i < Len(W) - 1 THEN ReLU(z) ELSE softmax(z), LAMBDA next :
            forwardLoop(W, B, i + 1, next, Append(zs, z), Append(activations, next),
                oob \/ multiplyOob(W[i + 1], activation) \/ addOob(product, B[i + 1]),
                g))))
    ELSE [zs |-> zs, activations |-> activations, oob |-> oob]

(* One iteration of the backward loop, for the transition i.  st holds the *)
(* network's weights and biases, the current delta and the history of the  *)
(* iterations made so far; ctx holds the cached forward pass and the       *)
(* outcome of a read outside a matrix.                                     *)
backwardStepUpdateFirst(st, i, ctx) ==
    LET g == ctx.u.g
        delta == st.delta
        weight_gradient0 == multiply(delta, transpose(ctx.activations[i + 1]), g)
        weight_decay == scalarMultiply(L2_LAMBDA, st.weights[i + 1])
        weight_gradient == add(weight_gradient0, weight_decay, g)
        newWeight == subtract(st.weights[i + 1],
                              scalarMultiply(LEARNING_RATE, weight_gradient), g)
        weighted_error == multiply(transpose(newWeight), delta, g)
        product == elementwiseMultiply(weighted_error, ReLUDerivative(ctx.zs[i]))
        newDelta == IF i > 0 THEN scalarMultiply(DELTA_SCALE, product) ELSE delta
        newBias == subtract(st.biases[i + 1], scalarMultiply(LEARNING_RATE, delta), g)
    IN  [weights |-> [st.weights EXCEPT ![i + 1] = newWeight],
         biases |-> [st.biases EXCEPT ![i + 1] = newBias],
         delta |-> newDelta,
         status |-> "running",
         oob |-> st.oob,
         trace |-> Append(st.trace,
                     [i |-> i, delta |-> delta, decayRead |-> st.weights[i + 1],
                      errorRead |-> IF i > 0 THEN <<newWeight>> ELSE <<>>,
                      gradient |-> weight_gradient, written |-> <<"weight", "bias">>,
                      deltaOut |-> IF i > 0 THEN <<newDelta>> ELSE <<>>])]

backwardStep(st, i, ctx) ==
    LET g == ctx.u.g
        delta == st.delta
        weight_gradient0 == multiply(delta, transpose(ctx.activations[i + 1]), g)
        o1 == multiplyOob(delta, transpose(ctx.activations[i + 1]))
        bias_gradient == delta
        weight_decay == scalarMultiply(L2_LAMBDA, st.weights[i + 1])
        weight_gradient == add(weight_gradient0, weight_decay, g)
        o2 == addOob(weight_gradient0, weight_decay)
        weighted_error == multiply(transpose(st.weights[i + 1]), delta, g)
        o3 == i > 0 /\ multiplyOob(transpose(st.weights[i + 1]), delta)
        product == elementwiseMultiply(weighted_error, ReLUDerivative(ctx.zs[i]))
        mismatch == i > 0 /\ "error" \in DOMAIN product
        newDelta == IF i > 0 /\ ~mismatch THEN scalarMultiply(DELTA_SCALE, product) ELSE delta
        step == scalarMultiply(LEARNING_RATE, weight_gradient)
        newWeight == subtract(st.weights[i + 1], step, g)
        o4 == subtractOob(st.weights[i + 1], step)
        biasStep == scalarMultiply(LEARNING_RATE, bias_gradient)
        newBias == subtract(st.biases[i + 1], biasStep, g)
        o5 == subtractOob(st.biases[i + 1], biasStep)
        endsBeforeWrite == mismatch \/ (ctx.u.fault /\ (o1 \/ o2 \/ o3 \/ o4))
        endsBeforeBias == ~endsBeforeWrite /\ ctx.u.fault /\ o5
    IN  [weights |-> IF endsBeforeWrite THEN st.weights
                     ELSE [st.weights EXCEPT ![i + 1] = newWeight],
         biases |-> IF endsBeforeWrite \/ endsBeforeBias THEN st.biases
                    ELSE [st.biases EXCEPT ![i + 1] = newBias],
         delta |-> newDelta,
         status |-> IF mismatch /\ ~(ctx.u.fault /\ (o1 \/ o2 \/ o3)) THEN "ShapeMismatch"
                    ELSE IF endsBeforeWrite \/ endsBeforeBias THEN "fault"
                    ELSE "running",
         oob |-> st.oob \/ o1 \/ o2 \/ o3 \/ o4 \/ o5,
         trace |-> Append(st.trace,
                     [i |-> i, delta |-> delta, decayRead |-> st.weights[i + 1],
                      errorRead |-> IF i > 0 THEN <<st.weights[i + 1]>> ELSE <<>>,
                      gradient |-> weight_gradient,
                      written |-> IF endsBeforeWrite THEN <<>>
                                  ELSE IF endsBeforeBias THEN <<"weight">>
                                  ELSE <<"weight", "bias">>,
                      deltaOut |-> IF i > 0 /\ ~mismatch THEN <<newDelta>> ELSE <<>>])]

RECURSIVE backwardLoopSkipFirst(_, _, _)
backwardLoopSkipFirst(st, i, ctx) ==
    IF i > 0 /\ st.status = "running"
    THEN With1(backwardStep(st, i, ctx),
               LAMBDA next : backwardLoopSkipFirst(next, i - 1, ctx))
    ELSE st

RECURSIVE backwardLoop(_, _, _)
backwardLoop(st, i, ctx) ==
    IF i >= 0 /\ st.status = "running"
    THEN With1(backwardStep(st, i, ctx), LAMBDA next : backwardLoop(next, i - 1, ctx))
    ELSE st

backpropagate(W, B, input, expected, u) ==
    With1(forwardLoop(W, B, 0, input, <<>>, <<input>>, FALSE, u.g), LAMBDA fwd :
    With1(fwd.activations[Len(fwd.activations)], LAMBDA output :
    With1(subtract(output, expected, u.g), LAMBDA delta :
    With1([weights |-> W, biases |-> B, delta |-> delta,
           status |-> IF u.fault /\ (fwd.oob \/ subtractOob(output, expected))
                      THEN "fault" ELSE "running",
           oob |-> fwd.oob \/ subtractOob(output, expected), trace |-> <<>>], LAMBDA st0 :
    With1(backwardLoop(st0, Len(W) - 1,
                       [zs |-> fwd.zs, activations |-> fwd.activations, u |-> u]),
          LAMBDA st :
        [weights |-> st.weights, biases |-> st.biases,
         status |-> IF st.status = "running" THEN "ok" ELSE st.status,
         oob |-> st.oob, zs |-> fwd.zs, activations |-> fwd.activations,
         outputDelta |-> delta, trace |-> st.trace])))))

Backpropagate ==
    /\ phase = "ok"
    /\ calls < MaxCalls
    /\ \E r0 \in {backpropagate(weights, biases, sample.input, sample.expected, Defined)} :
       \E u \in IF r0.oob THEN Outcomes ELSE {Defined} :
       \E r \in {IF u = Defined THEN r0
                 ELSE backpropagate(weights, biases, sample.input, sample.expected, u)} :
            /\ weights' = r.weights
            /\ biases' = r.biases
            /\ phase' = IF r.status = "ok" THEN "ok" ELSE "fault"
            /\ call' = [op |-> "backpropagate", input |-> sample.input,
                        expected |-> sample.expected, status |-> r.status,
                        preWeights |-> weights, preBiases |-> biases,
                        zs |-> r.zs, activations |-> r.activations,
                        outputDelta |-> r.outputDelta, trace |-> r.trace]
    /\ calls' = calls + 1
    /\ UNCHANGED <<sample, layers, randState, mop>>

----------------------------------------------------------------------------
(* The driver's data (Test.c++): an input of k sample columns and the      *)
(* one-hot expected output.                                                *)

Input(rows, cols, p) ==
    LET cell(i, j) == IF (i + j + p) % 2 = 0 THEN SCALE ELSE 0
    IN  Fill(rows, cols, cell)

Expected(rows, cols, q) ==
    LET cell(i, j) == IF i = (j + q) % rows THEN SCALE ELSE 0
    IN  Fill(rows, cols, cell)

Samples ==
    { [input |-> Input(r, k, p), expected |-> Expected(e, k, p)] :
        r \in 1..MaxWidth, k \in 1..MaxCols, e \in 1..MaxWidth, p \in 0..1 }

Init ==
    /\ NoNetwork
    /\ sample \in Samples
    /\ randState = 1
    /\ mop = NoOperands

Next ==
    \/ Construct
    \/ Feedforward
    \/ Backpropagate

Spec == Init /\ [][Next]_vars

----------------------------------------------------------------------------
(* Properties of the matrix engine, checked under SpecMatrix *)

ShapeChecked ==
    {"add", "subtract", "multiply", "elementwiseMultiply", "meanSquaredError"}

Incompatible(op, a, b) ==
    IF op = "multiply" THEN getCols(a) # getRows(b) ELSE ~SameShape(a, b)

(* C1: a call of add, subtract, multiply, elementwiseMultiply or           *)
(* meanSquaredError on operands of incompatible shapes fails with a        *)
(* ShapeMismatch error instead of returning a result.                      *)
C1_ShapeMismatchRejected ==
    (mop.op \in ShapeChecked /\ Incompatible(mop.op, mop.a, mop.b))
        => mop.status = "ShapeMismatch"

(* The sum over k in 0..n-1 of a(i,k) * b(k,j); the operands of the        *)
(* harness hold whole numbers, so every product is exact.                  *)
RECURSIVE Sigma(_, _, _, _, _)
Sigma(a, b, i, j, n) ==
    IF n = 0 THEN 0
    ELSE Sigma(a, b, i, j, n - 1) + (a.data[i + 1][n] * b.data[n][j + 1]) \div SCALE

(* C2: for a.cols = b.rows, multiply(a, b) returns a matrix of shape       *)
(* [a.rows x b.cols] whose element (i,j) is the sum over k of              *)
(* a(i,k) * b(k,j).                                                        *)
C2_MultiplyIsMatrixProduct ==
    (mop.op = "multiply" /\ getCols(mop.a) = getRows(mop.b))
        => /\ mop.status = "ok"
           /\ mop.out.rows = mop.a.rows
           /\ mop.out.cols = mop.b.cols
           /\ Len(mop.out.data) = mop.a.rows
           /\ \A i \in 1..mop.a.rows :
                /\ Len(mop.out.data[i]) = mop.b.cols
                /\ \A j \in 1..mop.b.cols :
                     mop.out.data[i][j] = Sigma(mop.a, mop.b, i - 1, j - 1, mop.a.cols)

C2_Witness ==
    /\ mop.op = "multiply"
    /\ getCols(mop.a) = getRows(mop.b)
    /\ getCols(mop.a) >= 2
    /\ getRows(mop.a) # getCols(mop.b)
    /\ mop.status = "ok"
    /\ \E i \in 1..mop.out.rows, j \in 1..mop.out.cols : mop.out.data[i][j] # 0

----------------------------------------------------------------------------
(* Properties of the network, checked under Spec *)

(* C3: constructing a network from a layer-size list with fewer than two   *)
(* elements fails with an InvalidConfiguration error and yields no         *)
(* network.                                                                *)
C3_ShortLayerListRejected ==
    (call.op = "construct" /\ Len(call.arg) < 2)
        => (call.status = "InvalidConfiguration" /\ phase # "ok")

WellShaped(input, expected) ==
    /\ Len(layers) >= 1
    /\ getRows(input) = layers[1]
    /\ getRows(expected) = layers[Len(layers)]

(* C4: backpropagate with an input whose row count differs from layers[0]  *)
(* or an expected output whose row count differs from layers[last] fails   *)
(* with a ShapeMismatch error and leaves every weight and bias as it was.  *)
C4_MismatchedSampleRejected ==
    (call.op = "backpropagate" /\ Len(layers) >= 2
        /\ ~WellShaped(call.input, call.expected))
        => /\ call.status = "ShapeMismatch"
           /\ weights = call.preWeights
           /\ biases = call.preBiases

C6_FeedforwardOutputShape ==
    (call.op = "feedforward" /\ Len(layers) >= 2
        /\ getRows(call.input) = layers[1] /\ getCols(call.input) >= 1)
        => /\ call.status = "ok"
           /\ getRows(call.out) = layers[Len(layers)]
           /\ getCols(call.out) = getCols(call.input)

HasShape(m, rows, cols) ==
    /\ m.rows = rows
    /\ m.cols = cols
    /\ Len(m.data) = rows
    /\ \A i \in 1..rows : Len(m.data[i]) = cols

(* C7: in every state of a network built from the layer sizes L there are  *)
(* len(L) - 1 weight matrices and bias vectors, weight[i] of shape         *)
(* [L[i+1] x L[i]] and bias[i] of shape [L[i+1] x 1].                      *)
C7_WeightAndBiasShapes ==
    Len(layers) >= 1
        => /\ Len(weights) = Len(layers) - 1
           /\ Len(biases) = Len(layers) - 1
           /\ \A i \in 1..Len(weights) :
                /\ HasShape(weights[i], layers[i + 1], layers[i])
                /\ HasShape(biases[i], layers[i + 1], 1)

C7_Witness ==
    /\ call.op = "backpropagate"
    /\ call.status = "ok"
    /\ getCols(call.input) >= 2
    /\ Len(weights) >= 2
    /\ \A i \in 1..Len(weights) :
         weights[i] # call.preWeights[i] /\ biases[i] # call.preBiases[i]

(* The sum over k of delta(r, k) * activation(c, k): element (r, c) of     *)
(* delta * transpose(activation).                                          *)
RECURSIVE OuterProduct(_, _, _, _, _)
OuterProduct(d, A, r, c, k) ==
    IF k = 0 THEN 0
    ELSE OuterProduct(d, A, r, c, k - 1) + FMul(d.data[r][k], A.data[c][k])

(* C8: within one backpropagate call every gradient and every propagated   *)
(* delta is computed from the weights as they were when the call started:  *)
(* the weights an iteration reads are the pre-call weights, its gradient   *)
(* is delta * transpose(activation) + lambda * pre-call weight, and no     *)
(* transition is visited again after its weights were written.             *)
C8_GradientsUsePreUpdateWeights ==
    call.op = "backpropagate"
        => \A n \in 1..Len(call.trace) :
             LET e == call.trace[n]
                 P == call.preWeights[e.i + 1]
                 A == call.activations[e.i + 1]
             IN  /\ e.decayRead = P
                 /\ (e.i > 0 => e.errorRead = <<P>>)
                 /\ \A m \in 1..(n - 1) : call.trace[m].i # e.i
                 /\ (call.status = "ok" /\ WellShaped(call.input, call.expected))
                      => /\ HasShape(e.gradient, P.rows, P.cols)
                         /\ \A r \in 1..P.rows, c \in 1..P.cols :
                              e.gradient.data[r][c] =
                                  OuterProduct(e.delta, A, r, c, e.delta.cols)
                                  + FMul(L2_LAMBDA, P.data[r][c])

C8_Witness ==
    /\ call.op = "backpropagate"
    /\ call.status = "ok"
    /\ Len(call.trace) >= 2
    /\ weights[Len(weights)] # call.preWeights[Len(weights)]
    /\ weights[1] # call.preWeights[1]

SingleSample(input, expected) ==
    /\ Len(layers) >= 2
    /\ WellShaped(input, expected)
    /\ getCols(input) = 1
    /\ getCols(expected) = 1

(* C9: after one backpropagate call on a single-column sample, every       *)
(* weight[i] is its pre-call value minus learningRate times                *)
(* (delta_i * transpose(activation[i]) + lambda * pre-call weight[i]),     *)
(* activation[0] being the input and the output delta being                *)
(* activation[last] - expected; the transitions are updated once each,     *)
(* from the last down to the first.                                        *)
C9_WeightUpdateRule ==
    (call.op = "backpropagate" /\ call.status = "ok"
        /\ SingleSample(call.input, call.expected))
        => LET n == Len(call.preWeights)
           IN  /\ Len(call.trace) = n
               /\ call.activations[1] = call.input
               /\ \A r \in 1..layers[n + 1] :
                    call.trace[1].delta.data[r][1] =
                        call.activations[n + 1].data[r][1] - call.expected.data[r][1]
               /\ \A s \in 1..n :
                    LET e == call.trace[s]
                        i == n - s
                        P == call.preWeights[i + 1]
                        A == call.activations[i + 1]
                    IN  /\ e.i = i
                        /\ HasShape(weights[i + 1], P.rows, P.cols)
                        /\ \A r \in 1..P.rows, c \in 1..P.cols :
                             weights[i + 1].data[r][c] =
                                 P.data[r][c]
                                 - FMul(LEARNING_RATE,
                                        FMul(e.delta.data[r][1], A.data[c][1])
                                        + FMul(L2_LAMBDA, P.data[r][c]))

C9_Witness ==
    /\ call.op = "backpropagate"
    /\ call.status = "ok"
    /\ SingleSample(call.input, call.expected)
    /\ Len(weights) >= 2
    /\ \A i \in 1..Len(weights) : weights[i] # call.preWeights[i]

(* The sum over k of weight(k, r) * delta(k, c): element (r, c) of         *)
(* transpose(weight) * delta.                                              *)
RECURSIVE WeightedError(_, _, _, _, _)
WeightedError(P, d, r, c, k) ==
    IF k = 0 THEN 0
    ELSE WeightedError(P, d, r, c, k - 1) + FMul(P.data[k][r], d.data[k][c])

RECURSIVE ColumnSum(_, _, _)
ColumnSum(d, r, k) ==
    IF k = 0 THEN 0 ELSE ColumnSum(d, r, k - 1) + d.data[r][k]

Batched(input, expected) ==
    /\ Len(layers) >= 2
    /\ WellShaped(input, expected)
    /\ getCols(input) > 1
    /\ getCols(expected) = getCols(input)

(* C11: after a backpropagate call on a batched sample (k > 1 columns),    *)
(* every bias[i] is its pre-call value minus learningRate times the        *)
(* layer's delta summed over all k columns, or, for every bias alike,      *)
(* minus learningRate times the delta averaged over all k columns.         *)
C11_BatchedBiasGradient ==
    (call.op = "backpropagate" /\ call.status = "ok"
        /\ Batched(call.input, call.expected))
        => \/ \A s \in 1..Len(call.trace) :
                LET e == call.trace[s]
                    b == call.preBiases[e.i + 1]
                IN  \A r \in 1..b.rows :
                      biases[e.i + 1].data[r][1] =
                          b.data[r][1]
                          - FMul(LEARNING_RATE, ColumnSum(e.delta, r, e.delta.cols))
           \/ \A s \in 1..Len(call.trace) :
                LET e == call.trace[s]
                    b == call.preBiases[e.i + 1]
                IN  \A r \in 1..b.rows :
                      biases[e.i + 1].data[r][1] =
                          b.data[r][1]
                          - FMul(LEARNING_RATE,
                                 Round(ColumnSum(e.delta, r, e.delta.cols),
                                       e.delta.cols))

(* The sum over k of weight(r, k) * activation(k, c): element (r, c) of    *)
(* weight * activation.                                                    *)
RECURSIVE WeightedInput(_, _, _, _, _)
WeightedInput(P, A, r, c, k) ==
    IF k = 0 THEN 0
    ELSE WeightedInput(P, A, r, c, k - 1) + FMul(P.data[r][k], A.data[k][c])

(* z = weight * activation + bias, the bias column added to every column.  *)
PreActivation(P, b, A) ==
    Fill(P.rows, A.cols,
         LAMBDA i, j : WeightedInput(P, A, i + 1, j + 1, P.cols) + b.data[i + 1][1])

(* The activation after the transitions i+1..n, transition n (the last)    *)
(* with softmax and every earlier one with ReLU.                           *)
RECURSIVE ForwardFrom(_, _, _, _)
ForwardFrom(W, B, i, A) ==
    IF i >= Len(W) THEN A
    ELSE LET z == PreActivation(W[i + 1], B[i + 1], A)
         IN  ForwardFrom(W, B, i + 1, IF i + 1 < Len(W) THEN ReLU(z) ELSE softmax(z))

ValidInput(input) ==
    /\ Len(layers) >= 2
    /\ getRows(input) = layers[1]
    /\ getCols(input) >= 1

(* C12: on a network of n >= 1 transitions the forward pass, in            *)
(* feedforward and in the forward phase of backpropagate alike, computes   *)
(* z = weight[i] * activation + bias[i] for i = 0..n-1 in increasing       *)
(* order, each from the activation of the transition before, applies ReLU  *)
(* to every z but the last and softmax to the last z only.                 *)
C12_ForwardPassOrder ==
    /\ (call.op = "feedforward" /\ ValidInput(call.input))
         => /\ call.status = "ok"
            /\ call.out = ForwardFrom(weights, biases, 0, call.input)
    /\ (call.op = "backpropagate" /\ ValidInput(call.input)
            /\ WellShaped(call.input, call.expected)
            /\ getCols(call.expected) = getCols(call.input))
         => LET n == Len(call.preWeights)
            IN  /\ call.status = "ok"
                /\ Len(call.zs) = n
                /\ Len(call.activations) = n + 1
                /\ call.activations[1] = call.input
                /\ \A i \in 1..n :
                     /\ call.zs[i] = PreActivation(call.preWeights[i],
                                                   call.preBiases[i],
                                                   call.activations[i])
                     /\ call.activations[i + 1] =
                            IF i < n THEN ReLU(call.zs[i]) ELSE softmax(call.zs[i])

(* C13: on a network of two or more layers, with an input of shape         *)
(* [L[0] x k] and an expected output of shape [L[last] x k], k >= 1,       *)
(* no element access made by feedforward or backpropagate falls outside    *)
(* the rows and columns of the matrix it indexes.                          *)
C13_AccessesInBounds ==
    /\ (call.op = "feedforward" /\ ValidInput(call.input))
         => ~feedforward(weights, biases, call.input, Defined.g).oob
    /\ (call.op = "backpropagate" /\ ValidInput(call.input)
            /\ WellShaped(call.input, call.expected)
            /\ getCols(call.expected) = getCols(call.input))
         => ~backpropagate(call.preWeights, call.preBiases,
                           call.input, call.expected, Defined).oob

====
